---- MODULE Spec2Model ----
(***************************************************************************)
(* Model of src/agent.py: a LangGraph research agent.                      *)
(*                                                                         *)
(* The graph has two nodes, llm_agent_node and tool_node, a conditional    *)
(* edge route_agent after llm_agent_node and a fixed edge from tool_node   *)
(* back to llm_agent_node.  The state threaded through the graph is the    *)
(* list `messages`, merged with the reducer x + y.                         *)
(*                                                                         *)
(* Two entry points drive the compiled graph: run_research_agent (a        *)
(* stream pass with a step counter, then an invoke pass) and               *)
(* run_research_agent_verbose (a stream pass, then an invoke pass).        *)
(*                                                                         *)
(* The language model and the two tools are external.  Their behaviour is  *)
(* fixed per behaviour by the record `stub`, drawn in Init:                *)
(*   kind       "conv": the model asks for tools while the conversation    *)
(*              it is given holds fewer than toolRounds assistant entries; *)
(*              "count": it asks for tools on its first toolRounds calls;  *)
(*   always     the model asks for tools on every call;                    *)
(*   failAt     the number of the call on which the service raises         *)
(*              (0: never);                                                *)
(*   batch      the tool names it requests, the same on every request;     *)
(*   toolFails  the registered tools whose invoke raises;                  *)
(*   answer     the content of its final answer (possibly empty).          *)
(*                                                                         *)
(* Library behaviour the source relies on (langgraph):                     *)
(*   - app.stream yields one chunk per executed node, lazily: leaving the  *)
(*     for loop stops the graph;                                           *)
(*   - app.invoke / app.stream run at most RecursionLimit supersteps and   *)
(*     then raise GraphRecursionError;                                     *)
(*   - ToolNode(tools).invoke(state) answers every tool call of the last   *)
(*     message, in order, with one ToolMessage: the tool's output, or an   *)
(*     "Error: ..." message when the tool raises or the name is unknown.   *)
(***************************************************************************)
EXTENDS Integers, Sequences, FiniteSets, TLC

\* ---------------------------------------------------------------- bounds
MaxBatch == 3
MaxToolRounds == 5
MaxFailAt == 3
MaxMixedRounds == 1

\* ------------------------------------------------------------- constants
max_steps == 10
RecursionLimit == 25

END == "__end__"

Registered == {"wikipedia", "duckduckgo_search"}
ToolNames == Registered \union {"unknown_tool"}

NoId == <<>>
NoAnswer == <<"<no answer printed>">>

\* ------------------------------------------------------------- messages
HumanMessage(c) ==
    [kind |-> "human", content |-> c, tool_calls |-> <<>>, tool_call_id |-> NoId]

AIMessage(c, calls) ==
    [kind |-> "ai", content |-> c, tool_calls |-> calls, tool_call_id |-> NoId]

ToolMessage(c, id) ==
    [kind |-> "tool", content |-> c, tool_calls |-> <<>>, tool_call_id |-> id]

initial_state == <<HumanMessage(<<"query">>)>>

system_message == HumanMessage(<<"system_prompt">>)

\* The reducer of AgentState.messages.
ReducerReplace(x, y) == y

Reducer(x, y) == x \o y

\* ------------------------------------------------- the decision function
Batches == UNION {[1..n -> ToolNames] : n \in 1..MaxBatch}

Stubs ==
    {s \in [kind : {"conv", "count"},
            always : BOOLEAN,
            toolRounds : 0..MaxToolRounds,
            failAt : 0..MaxFailAt,
            batch : Batches,
            toolFails : SUBSET Registered,
            answer : {<<>>, <<"Paris">>}] :
        /\ s.always => (s.toolRounds = 0 /\ s.kind = "conv")
        /\ s.toolFails \subseteq {s.batch[i] : i \in 1..Len(s.batch)}
        \* batches of several requests are explored for the decision
        \* functions that request tools at most MaxMixedRounds times
        /\ (s.always \/ s.toolRounds > MaxMixedRounds) => Len(s.batch) = 1
        \* a decision function that never requests tools has no batch to vary
        /\ (~s.always /\ s.toolRounds = 0) =>
              (s.batch = <<"wikipedia">> /\ s.toolFails = {} /\ s.kind = "conv")}

NumAI(msgs) == Cardinality({i \in 1..Len(msgs) : msgs[i].kind = "ai"})

WantsTools(s, input, callNo) ==
    \/ s.always
    \/ s.kind = "conv" /\ NumAI(input) < s.toolRounds
    \/ s.kind = "count" /\ callNo <= s.toolRounds

\* llm_with_tools.invoke(messages): the call number callNo of this query.
LlmInvoke(s, input, callNo) ==
    IF s.failAt = callNo
    THEN [ok |-> FALSE, response |-> AIMessage(<<>>, <<>>)]
    ELSE IF WantsTools(s, input, callNo)
    THEN [ok |-> TRUE,
          response |-> AIMessage(<<>>,
              [i \in 1..Len(s.batch) |-> [name |-> s.batch[i], id |-> <<callNo, i>>]])]
    ELSE [ok |-> TRUE, response |-> AIMessage(s.answer, <<>>)]

\* The input llm_agent_node hands to the model.
LlmInput(msgs) ==
    IF Len(msgs) = 1 THEN <<system_message>> \o msgs ELSE msgs

\* llm_agent_node: the update it returns, or the failure of the call.
llm_agent_node(s, msgs, callNo) ==
    LET r == LlmInvoke(s, LlmInput(msgs), callNo)
    IN  [ok |-> r.ok, messages |-> IF r.ok THEN <<r.response>> ELSE <<>>]

\* ------------------------------------------------------------ the tools
OutputOf(name) ==
    IF name = "wikipedia" THEN "wikipedia_output" ELSE "duckduckgo_output"

ExcOf(name) ==
    IF name = "wikipedia" THEN "wikipedia_exception" ELSE "duckduckgo_exception"

\* tool_executor.invoke(tool_call)
ToolInvoke(name, fails) ==
    IF name \in fails
    THEN [ok |-> FALSE, value |-> ExcOf(name)]
    ELSE [ok |-> TRUE, value |-> OutputOf(name)]

source_info(name) ==
    IF name = "wikipedia" THEN <<"\n\nSource: Wikipedia">>
    ELSE IF name = "duckduckgo_search" THEN <<"\n\nSource: Web Search (DuckDuckGo)">>
    ELSE <<"\n\nSource: ", name>>

\* One tool call answered by the prebuilt ToolNode.
FallbackRunOne(call, fails) ==
    IF call.name \notin Registered
    THEN ToolMessage(<<"Error: ", call.name, " is not a valid tool">>, call.id)
    ELSE LET r == ToolInvoke(call.name, fails)
         IN  IF r.ok
             THEN ToolMessage(<<r.value>>, call.id)
             ELSE ToolMessage(<<"Error: ", r.value, " Please fix your mistakes.">>, call.id)

RECURSIVE RegisteredIds(_, _)
RegisteredIds(calls, i) ==
    IF i > Len(calls) THEN <<>>
    ELSE (IF calls[i].name \in Registered THEN <<calls[i].id>> ELSE <<>>)
         \o RegisteredIds(calls, i + 1)

\* ToolNode(tools).invoke(state): every call of the last message, in order.
tool_node_fallback(calls, fails) ==
    [messages |-> [i \in 1..Len(calls) |-> FallbackRunOne(calls[i], fails)],
     invoked |-> RegisteredIds(calls, 1)]

\* The fallback branch of tool_node: the prebuilt ToolNode answers the whole
\* batch and its result is returned in place of the outputs collected so far.
UnknownToolExtend(calls, fails, tool_outputs, log) ==
    LET fb == tool_node_fallback(calls, fails)
    IN  [messages |-> tool_outputs \o fb.messages,
         invoked |-> log \o fb.invoked,
         raised |-> FALSE]

UnknownToolRaise(calls, fails, tool_outputs, log) ==
    [messages |-> <<>>, invoked |-> log, raised |-> TRUE]

UnknownTool(calls, fails, tool_outputs, log) ==
    LET fb == tool_node_fallback(calls, fails)
    IN  [messages |-> fb.messages,
         invoked |-> log \o fb.invoked,
         raised |-> FALSE]

\* The try/except of tool_node around one registered capability.
TryInvokeReraise(tool_call, fails) ==
    LET r == ToolInvoke(tool_call.name, fails)
    IN  IF r.ok
        THEN [raised |-> FALSE,
              message |-> ToolMessage(<<r.value>> \o source_info(tool_call.name),
                                      tool_call.id)]
        ELSE [raised |-> TRUE, message |-> ToolMessage(<<>>, tool_call.id)]

TryInvoke(tool_call, fails) ==
    LET r == ToolInvoke(tool_call.name, fails)
    IN  IF r.ok
        THEN [raised |-> FALSE,
              message |-> ToolMessage(<<r.value>> \o source_info(tool_call.name),
                                      tool_call.id)]
        ELSE [raised |-> FALSE,
              message |-> ToolMessage(<<"Error: ", r.value>>, tool_call.id)]

\* The for loop of tool_node from request i on, with the outputs collected
\* so far and the ids of the requests whose capability has been invoked.
\* An exception that is not caught leaves the loop and the node.
RECURSIVE ToolLoop(_, _, _, _, _)
ToolLoop(calls, fails, i, tool_outputs, log) ==
    IF i > Len(calls)
    THEN [messages |-> tool_outputs, invoked |-> log, raised |-> FALSE]
    ELSE LET tool_call == calls[i]
         IN  IF tool_call.name \notin Registered
             THEN UnknownTool(calls, fails, tool_outputs, log)
             ELSE LET t == TryInvoke(tool_call, fails)
                  IN  IF t.raised
                      THEN [messages |-> <<>>,
                            invoked |-> Append(log, tool_call.id),
                            raised |-> TRUE]
                      ELSE ToolLoop(calls, fails, i + 1,
                                    Append(tool_outputs, t.message),
                                    Append(log, tool_call.id))

\* tool_node: the update it returns for the state `msgs`.
tool_node(msgs, fails) ==
    ToolLoop(msgs[Len(msgs)].tool_calls, fails, 1, <<>>, <<>>)

\* --------------------------------------------------------------- router
route_agent_always_end(msgs) == END

route_agent_on_content(msgs) ==
    LET last_message == msgs[Len(msgs)]
    IN  IF last_message.kind = "ai" /\ last_message.content = <<>>
        THEN "tool_node"
        ELSE END

route_agent(msgs) ==
    LET last_message == msgs[Len(msgs)]
    IN  IF last_message.kind = "ai" /\ last_message.tool_calls # <<>>
        THEN "tool_node"
        ELSE END

\* ---------------------------------------------------------------- state
VARIABLES
    stub,         \* behaviour of the language model and of the tools
    entry,        \* "plain": run_research_agent, "verbose": run_research_agent_verbose
    pc,           \* position in the entry point: "stream", "invoke_start", "invoke", "done"
    next,         \* the node the graph runs next
    messages,     \* AgentState.messages of the running graph execution
    supersteps,   \* nodes executed by the running graph execution
    step_count,   \* the local step_count of run_research_agent
    llmCalls,     \* calls of llm_with_tools.invoke made for this query
    toolSteps,    \* executions of tool_node made for this query
    reports,      \* outcomes reported for this query: "answer", "limit", "failure"
    answer,       \* the content printed as the answer
    escaped,      \* an exception left the entry point
    invoked,      \* request ids whose capability the last tool_node invoked
    prefixed,     \* the last model call was given the system message
    plainResult   \* what run_research_agent reported, kept for the verbose run

vars == <<stub, entry, pc, next, messages, supersteps, step_count, llmCalls,
          toolSteps, reports, answer, escaped, invoked, prefixed, plainResult>>

NoResult == [reports |-> {}, answer |-> NoAnswer]

\* The first statements of an entry point, up to the start of app.stream.
EnterRun(e) ==
    /\ entry' = e
    /\ pc' = "stream"
    /\ next' = "llm_agent_node"
    /\ messages' = initial_state
    /\ supersteps' = 0
    /\ step_count' = 1
    /\ llmCalls' = 0
    /\ toolSteps' = 0
    /\ reports' = {}
    /\ answer' = NoAnswer
    /\ escaped' = FALSE
    /\ invoked' = <<>>
    /\ prefixed' = FALSE

Init ==
    /\ stub \in Stubs
    /\ entry = "plain"
    /\ pc = "stream"
    /\ next = "llm_agent_node"
    /\ messages = initial_state
    /\ supersteps = 0
    /\ step_count = 1
    /\ llmCalls = 0
    /\ toolSteps = 0
    /\ reports = {}
    /\ answer = NoAnswer
    /\ escaped = FALSE
    /\ invoked = <<>>
    /\ prefixed = FALSE
    /\ plainResult = NoResult

\* ------------------------------------------------- the entry point loops
\* Body of the for loop of run_research_agent for one streamed chunk, and
\* the end of the loop when the graph has reached END.
PlainStreamLoopDecisionsOnly(sc, nxt) ==
    LET n == IF nxt = "llm_agent_node" THEN sc ELSE sc + 1
    IN  IF n > max_steps
        THEN [step_count |-> n, pc |-> "invoke_start", warned |-> TRUE]
        ELSE [step_count |-> n,
              pc |-> IF nxt = END THEN "invoke_start" ELSE "stream",
              warned |-> FALSE]

PlainStreamLoop(sc, nxt) ==
    LET n == sc + 1
    IN  IF n > max_steps
        THEN [step_count |-> n, pc |-> "invoke_start", warned |-> TRUE]
        ELSE [step_count |-> n,
              pc |-> IF nxt = END THEN "invoke_start" ELSE "stream",
              warned |-> FALSE]

\* Body of the for loop of run_research_agent_verbose.
VerboseStreamLoop(sc, nxt) ==
    [step_count |-> sc,
     pc |-> IF nxt = END THEN "invoke_start" ELSE "stream",
     warned |-> FALSE]

StreamLoop(e, sc, nxt) ==
    IF e = "plain" THEN PlainStreamLoop(sc, nxt) ELSE VerboseStreamLoop(sc, nxt)

\* Where the entry point goes when an exception reaches it at position p:
\* the stream loops are outside any try, and the except clause of
\* run_research_agent only prints.
OnErrorStay(e, p) == p

OnErrorContinue(e, p) == IF p = "stream" THEN "invoke_start" ELSE "done"

OnError(e, p) == "done"

\* Whether the exception leaves the entry point: only the invoke of
\* run_research_agent is inside a try.
Escapes(e, p) == ~(e = "plain" /\ p = "invoke")

\* An exception raised inside the graph reaches the entry point.
Fail ==
    /\ pc' = OnError(entry, pc)
    /\ reports' = reports \union {"failure"}
    /\ escaped' = Escapes(entry, pc)
    /\ UNCHANGED <<messages, next, supersteps, step_count, answer>>

\* A node has run and left the graph at node nxt with state msgs.
AfterNode(nxt, msgs) ==
    /\ messages' = msgs
    /\ next' = nxt
    /\ supersteps' = supersteps + 1
    /\ escaped' = escaped
    /\ IF pc = "stream"
       THEN LET l == StreamLoop(entry, step_count, nxt)
            IN  /\ step_count' = l.step_count
                /\ pc' = l.pc
                /\ reports' = IF l.warned THEN reports \union {"limit"} ELSE reports
                /\ answer' = answer
       ELSE /\ step_count' = step_count
            /\ IF nxt = END
               THEN /\ pc' = "done"
                    /\ reports' = reports \union {"answer"}
                    /\ answer' = msgs[Len(msgs)].content
               ELSE /\ pc' = "invoke"
                    /\ reports' = reports
                    /\ answer' = answer

Running == pc \in {"stream", "invoke"} /\ next # END

\* The graph runs llm_agent_node, then the conditional edge route_agent.
LlmStep ==
    /\ Running
    /\ next = "llm_agent_node"
    /\ supersteps < RecursionLimit
    /\ LET u == llm_agent_node(stub, messages, llmCalls + 1)
       IN  /\ llmCalls' = llmCalls + 1
           /\ prefixed' = (Head(LlmInput(messages)) = system_message)
           /\ IF u.ok
              THEN LET msgs == Reducer(messages, u.messages)
                   IN  AfterNode(route_agent(msgs), msgs)
              ELSE Fail
    /\ UNCHANGED <<stub, entry, toolSteps, invoked, plainResult>>

\* The graph runs tool_node, then the edge back to llm_agent_node.
ToolStep ==
    /\ Running
    /\ next = "tool_node"
    /\ supersteps < RecursionLimit
    /\ LET u == tool_node(messages, stub.toolFails)
       IN  /\ toolSteps' = toolSteps + 1
           /\ invoked' = u.invoked
           /\ IF u.raised
              THEN Fail
              ELSE AfterNode("llm_agent_node", Reducer(messages, u.messages))
    /\ UNCHANGED <<stub, entry, llmCalls, prefixed, plainResult>>

\* The graph has run RecursionLimit nodes without reaching END.
GraphRecursionError ==
    /\ Running
    /\ supersteps >= RecursionLimit
    /\ Fail
    /\ UNCHANGED <<stub, entry, llmCalls, toolSteps, invoked, prefixed, plainResult>>

\* app.invoke(initial_state): a second execution of the graph from scratch.
InvokeStart ==
    /\ pc = "invoke_start"
    /\ pc' = "invoke"
    /\ messages' = initial_state
    /\ next' = "llm_agent_node"
    /\ supersteps' = 0
    /\ UNCHANGED <<stub, entry, step_count, llmCalls, toolSteps, reports, answer,
                   escaped, invoked, prefixed, plainResult>>

\* The same query and the same collaborators are then given to
\* run_research_agent_verbose.
StartVerbose ==
    /\ pc = "done"
    /\ entry = "plain"
    /\ plainResult' = [reports |-> reports, answer |-> answer]
    /\ EnterRun("verbose")
    /\ UNCHANGED stub

Next ==
    \/ LlmStep
    \/ ToolStep
    \/ GraphRecursionError
    \/ InvokeStart
    \/ StartVerbose

Spec == Init /\ [][Next]_vars

\* The entry point is a single thread of control in which every external
\* call returns or fails: a step that can be taken is eventually taken.
FairSpec == Spec /\ WF_vars(Next)

TypeOK ==
    /\ stub \in Stubs
    /\ entry \in {"plain", "verbose"}
    /\ pc \in {"stream", "invoke_start", "invoke", "done"}
    /\ next \in {"llm_agent_node", "tool_node", END}
    /\ supersteps \in 0..RecursionLimit
    /\ reports \subseteq {"answer", "limit", "failure"}

\* =============================================================== claims
Last(msgs) == msgs[Len(msgs)]

IsErrorContent(c) == Len(c) >= 1 /\ c[1] = "Error: "

IsStrictExtension(old, new) ==
    /\ Len(new) > Len(old)
    /\ SubSeq(new, 1, Len(old)) = old

\* The decision function asks for a tool on every call and never fails.
AlwaysRequestsTools == stub.always /\ stub.failAt = 0

\* The decision function asks for tools k times, then answers, never fails.
AnswersAfter(k) == ~stub.always /\ stub.failAt = 0 /\ stub.toolRounds = k

\* C1: with a decision function that always requests a tool,
\* run_research_agent makes no more than max_steps decision calls and no
\* more than max_steps tool-dispatch steps over all its passes, and ends
\* reporting the iteration limit and nothing else.
C1_IterationCapEnforced ==
    (entry = "plain" /\ AlwaysRequestsTools) =>
        /\ llmCalls <= max_steps
        /\ toolSteps <= max_steps
        /\ (pc = "done" => reports = {"limit"})

\* C2: every assistant message with N >= 1 tool requests that has been
\* answered is followed by exactly N tool results whose tool_call_id values
\* are the ids of the N requests, each once.
BatchAnswered(i) ==
    LET calls == messages[i].tool_calls
        N == Len(calls)
    IN  /\ Len(messages) >= i + N
        /\ \A j \in 1..N : messages[i + j].kind = "tool"
        /\ (Len(messages) > i + N => messages[i + N + 1].kind # "tool")
        /\ {messages[i + j].tool_call_id : j \in 1..N} = {calls[j].id : j \in 1..N}
        /\ \A j, k \in 1..N :
              messages[i + j].tool_call_id = messages[i + k].tool_call_id => j = k

C2_OneResultPerRequest ==
    \A i \in 1..Len(messages) :
        (messages[i].kind = "ai" /\ Len(messages[i].tool_calls) >= 1 /\ i < Len(messages))
            => BatchAnswered(i)

\* A batch that mixes a registered tool that raises with an unregistered
\* tool placed before it has been answered.
C2_Witness ==
    \E i \in 1..Len(messages) :
        /\ messages[i].kind = "ai"
        /\ i < Len(messages)
        /\ Len(messages[i].tool_calls) >= 2
        /\ messages[i].tool_calls[1].name = "unknown_tool"
        /\ messages[i].tool_calls[2].name \in stub.toolFails

\* C3: every completed node step keeps the existing entries of messages as
\* a prefix and makes the sequence strictly longer.
C3_AppendOnly ==
    [][supersteps' = supersteps + 1 => IsStrictExtension(messages, messages')]_vars

\* A tool step has appended a batch of more than one result.
C3_Witness ==
    /\ toolSteps >= 1
    /\ Len(messages) >= 4
    /\ Last(messages).kind = "tool"

\* C4: route_agent depends on the last entry alone; it returns "tool_node"
\* exactly when that entry is an assistant message with a non-empty request
\* sequence and END for every other entry, whatever its content; the graph
\* follows its result after llm_agent_node.
C4_RouterTotal ==
    LET last == Last(messages)
    IN  /\ route_agent(messages) \in {"tool_node", END}
        /\ route_agent(messages) = "tool_node"
              <=> (last.kind = "ai" /\ Len(last.tool_calls) >= 1)
        /\ route_agent(<<last>>) = route_agent(messages)
        /\ last.kind = "ai" => next = route_agent(messages)

\* The run ended on an assistant message with neither content nor requests.
C4_Witness ==
    /\ Last(messages).kind = "ai"
    /\ Last(messages).content = <<>>
    /\ Last(messages).tool_calls = <<>>
    /\ next = END
    /\ toolSteps >= 1

\* C5: a tool step in which a registered capability raises appends, for
\* that request, a tool result with the request's id and an error
\* description as content; no failure reaches the entry point and the graph
\* goes on to llm_agent_node.
C5_ToolFailureIsolated ==
    [][toolSteps' = toolSteps + 1 =>
        LET calls == Last(messages).tool_calls
        IN  (\E i \in 1..Len(calls) : calls[i].name \in stub.toolFails) =>
              /\ "failure" \notin reports'
              /\ ~escaped'
              /\ pc' # "done"
              /\ next' = "llm_agent_node"
              /\ Len(messages') = Len(messages) + Len(calls)
              /\ \A i \in 1..Len(calls) :
                    calls[i].name \in stub.toolFails =>
                        /\ messages'[Len(messages) + i].kind = "tool"
                        /\ messages'[Len(messages) + i].tool_call_id = calls[i].id
                        /\ IsErrorContent(messages'[Len(messages) + i].content)
      ]_vars

\* The decision function has been called again with the error entry of a
\* raising registered tool in the conversation.
C5_Witness ==
    /\ Last(messages).kind = "ai"
    /\ \E i \in 1..Len(messages) :
          /\ messages[i].kind = "tool"
          /\ messages[i].content = <<"Error: ", "wikipedia_exception">>

\* C6: a tool step whose batch names an unregistered tool appends exactly
\* one tool result for that request, with the request's id and an error
\* description as content; no failure reaches the entry point and the graph
\* goes on to llm_agent_node.
C6_UnknownToolAnswered ==
    [][toolSteps' = toolSteps + 1 =>
        LET calls == Last(messages).tool_calls
            added == SubSeq(messages', Len(messages) + 1, Len(messages'))
        IN  \A i \in 1..Len(calls) :
              calls[i].name \notin Registered =>
                  /\ "failure" \notin reports'
                  /\ ~escaped'
                  /\ pc' # "done"
                  /\ next' = "llm_agent_node"
                  /\ Cardinality({j \in 1..Len(added) :
                                    added[j].tool_call_id = calls[i].id}) = 1
                  /\ \A j \in 1..Len(added) :
                        added[j].tool_call_id = calls[i].id =>
                            /\ added[j].kind = "tool"
                            /\ IsErrorContent(added[j].content)
      ]_vars

\* The decision function has been called again after a batch whose only
\* request named an unregistered tool.
C6_Witness ==
    /\ Len(messages) >= 4
    /\ messages[2].kind = "ai"
    /\ Len(messages[2].tool_calls) = 1
    /\ messages[2].tool_calls[1].name = "unknown_tool"
    /\ messages[3].kind = "tool"
    /\ messages[4].kind = "ai"

\* C7: when the decision function requests tools k times and then answers,
\* a finished run_research_agent has made exactly k + 1 decision calls and
\* exactly k tool-dispatch steps.
C7_ExactIterations ==
    \A k \in 0..MaxToolRounds :
        (entry = "plain" /\ pc = "done" /\ AnswersAfter(k) /\ 2 * k + 1 <= max_steps)
            => (llmCalls = k + 1 /\ toolSteps = k)

\* C8: a finished run_research_agent has reported exactly one outcome, and
\* when the step counter exceeded the maximum that outcome is the iteration
\* limit, without an answer and without a failure.
C8_OneOutcome ==
    (entry = "plain" /\ pc = "done") =>
        /\ Cardinality(reports) = 1
        /\ (step_count > max_steps => reports = {"limit"})

\* C9: once a decision call has failed the run is over with a failure
\* outcome, no answer is reported and no further decision call is made.
DecisionFailed == stub.failAt # 0 /\ llmCalls >= stub.failAt

C9_FailureEndsRun ==
    DecisionFailed =>
        /\ llmCalls = stub.failAt
        /\ pc = "done"
        /\ "failure" \in reports
        /\ "answer" \notin reports
        /\ answer = NoAnswer

\* The stream pass of run_research_agent succeeded and a decision call of
\* its invoke pass failed.
C9_Witness ==
    /\ DecisionFailed
    /\ entry = "plain"
    /\ ~escaped
    /\ toolSteps >= 1

\* C10: for the same query, decision function and tools, a finished
\* run_research_agent_verbose has reported the same outcome and the same
\* answer as run_research_agent.
C10_VerboseSameResult ==
    (entry = "verbose" /\ pc = "done") =>
        [reports |-> reports, answer |-> answer] = plainResult

\* A request of a batch that fails: its capability raises or its tool name
\* is not registered.
FailingRequest(call) == call.name \in stub.toolFails \/ call.name \notin Registered

\* What tool_node's own loop returns for a registered capability that
\* succeeded: the output followed by the source attribution.
AttributedContent(name) == <<OutputOf(name)>> \o source_info(name)

\* C11: in a tool step, a request that fails does not keep the other
\* requests of the batch from being processed: each of them is executed and
\* its successful result, with its source attribution, is in the batch.
C11_FailureDoesNotStopBatch ==
    [][toolSteps' = toolSteps + 1 =>
        LET calls == Last(messages).tool_calls
        IN  \A i, j \in 1..Len(calls) :
              (i # j /\ FailingRequest(calls[j]) /\ ~FailingRequest(calls[i])) =>
                  /\ \E n \in 1..Len(invoked') : invoked'[n] = calls[i].id
                  /\ Len(messages') = Len(messages) + Len(calls)
                  /\ messages'[Len(messages) + i].tool_call_id = calls[i].id
                  /\ messages'[Len(messages) + i].content = AttributedContent(calls[i].name)
      ]_vars

\* C12: every tool result in the conversation that answers a successful
\* request for a registered capability has as content the tool output
\* followed by the attribution suffix of that capability.
C12_SuccessIsAttributed ==
    \A i \in 1..Len(messages) :
        (messages[i].kind = "ai" /\ i < Len(messages)) =>
            \A j \in 1..Len(messages[i].tool_calls) :
                LET call == messages[i].tool_calls[j]
                IN  (~FailingRequest(call) /\ i + j <= Len(messages)) =>
                        messages[i + j].content = AttributedContent(call.name)

\* The position in its batch of the request with this id.
PositionOf(id) == id[2]

\* C13: in a tool step the i-th appended tool result carries the id of the
\* i-th request, and the capabilities are invoked in request order: no
\* request is invoked after a request that comes later in the batch.
C13_ResultsInRequestOrder ==
    [][toolSteps' = toolSteps + 1 =>
        LET calls == Last(messages).tool_calls
        IN  /\ Len(messages') = Len(messages) + Len(calls)
            /\ \A i \in 1..Len(calls) :
                  messages'[Len(messages) + i].tool_call_id = calls[i].id
            /\ \A m, n \in 1..Len(invoked') :
                  m < n => PositionOf(invoked'[m]) <= PositionOf(invoked'[n])
      ]_vars

\* The stream pass of the running entry point has ended because the graph
\* reached END (the loop of run_research_agent was not left by its break).
StreamReachedDone ==
    /\ pc \in {"invoke_start", "invoke"}
    /\ entry = "plain" => step_count <= max_steps

\* C14: a run starts at llm_agent_node with the conversation holding the
\* user's message alone; a tool step runs only right after a decision step
\* whose output carries a tool request and is followed by a decision step;
\* once the graph has reached END no decision or tool step runs in that run.
C14_OnlyStateMachineTransitions ==
    /\ []((pc = "stream" /\ supersteps = 0) =>
            (next = "llm_agent_node" /\ messages = initial_state))
    /\ [][/\ toolSteps' = toolSteps + 1 =>
                /\ Last(messages).kind = "ai"
                /\ Len(Last(messages).tool_calls) >= 1
                /\ next' = "llm_agent_node"
          /\ StreamReachedDone =>
                (llmCalls' = llmCalls /\ toolSteps' = toolSteps)
         ]_vars

C16_AnswerIsFinalAssistantMessage ==
    "answer" \in reports =>
        /\ answer = Last(messages).content
        /\ Last(messages).kind = "ai"
        /\ Last(messages).tool_calls = <<>>
        /\ next = END

\* run_research_agent has printed the answer the decision function gave
\* after a round of tools.
C16_Witness ==
    /\ entry = "plain"
    /\ "answer" \in reports
    /\ answer = <<"Paris">>
    /\ Len(messages) >= 4

\* C17: of the decision calls made for a query, the first and no other is
\* given the system message; the system message is never an entry of the
\* conversation; a completed decision step appends exactly one assistant
\* message to the conversation and nothing else.
C17_SystemMessageOnFirstCallOnly ==
    /\ [](prefixed <=> llmCalls = 1)
    /\ [](\A i \in 1..Len(messages) : messages[i] # system_message)
    /\ [][(llmCalls' = llmCalls + 1 /\ supersteps' = supersteps + 1) =>
              /\ Len(messages') = Len(messages) + 1
              /\ SubSeq(messages', 1, Len(messages)) = messages
              /\ Last(messages').kind = "ai"]_vars

\* C18: every run of run_research_agent eventually ends, having reported
\* an answer, the iteration limit or a failure.
C18_RunTerminates ==
    <>(entry = "plain" /\ pc = "done" /\ reports # {})

\* run_research_agent has ended with a decision function that requests
\* tools on every call: the graph execution of its invoke pass was cut.
C18_Witness ==
    /\ entry = "plain"
    /\ pc = "done"
    /\ AlwaysRequestsTools
    /\ supersteps = RecursionLimit
    /\ "failure" \in reports

\* C19: in one tool step the capability of a request is invoked at most
\* once: no request id occurs twice among the invocations of the step.
C19_InvokedAtMostOnce ==
    \A m, n \in 1..Len(invoked) : invoked[m] = invoked[n] => m = n

====
